---- MODULE Spec2Model ----
(***************************************************************************)
(* The questionnaire of streamlit_app.py as a state machine.               *)
(*                                                                         *)
(* Streamlit executes the script from its first line on every interaction. *)
(* What lasts from one execution to the next is st.session_state, the      *)
(* widgets the last execution put on the page, the files under responses/  *)
(* and the rows of the Google sheet.  One action of the model is one       *)
(* gesture of the respondent together with the whole script execution it   *)
(* triggers (and the second execution that st.rerun() starts).             *)
(*                                                                         *)
(* The names clinician, experience_level and name are bound by the body of *)
(* "if st.button("Continue")", lines 71-79.  Spec and SpecSink follow the   *)
(* executions in which that body has run, the first page load apart; what  *)
(* the script does with the names unbound is in Questionnaire and is       *)
(* exercised by Load.                                                      *)
(***************************************************************************)
EXTENDS Integers, Sequences, FiniteSets, TLC

VARIABLES
    session_state,  \* st.session_state: a mapping from the keys present to values
    clicked,        \* the widget the respondent last acted on, "" before any
    ran,            \* whether that gesture started a script execution
    widgets,        \* the questionnaire widgets on the page: shown and disabled
    out,            \* what the last execution did: events, written file, row
    files,          \* the local storage: the responses folder and its files
    sheet,          \* the rows of the remote spreadsheet
    clock,          \* the last reading of the wall clock, in ticks
    runsLeft,       \* executions still explored, Unlimited when not counted
    call,           \* argument and result of a helper applied in isolation
    widget_values   \* what Streamlit holds for the widgets between executions

vars == <<session_state, clicked, ran, widgets, out, files, sheet, clock,
          runsLeft, call, widget_values>>

----------------------------------------------------------------------------
(* Values and constants of the script *)

None == "None"

video_paths ==
    << "./VideoColonoscopy3.mp4", "./VideoColonoscopy4.mp4",
       "./VideoColonoscopy5.mp4", "./VideoColonoscopy6.mp4",
       "./VideoColonoscopy7.mp4", "./VideoColonoscopy8.mp4",
       "./VideoColonoscopy9.mp4", "./VideoColonoscopy10.mp4",
       "./VideoColonoscopy11.mp4", "./VideoColonoscopy12.mp4" >>

N == Len(video_paths)

Slots == 0 .. N - 1

options == << "Select an option", "Left", "Right" >>

Valid == { "Left", "Right" }

responses_folder == "responses"

\* Python truthiness of a stored response: None (and "") are false.
Truthy(v) == v # None /\ v # ""

\* Python truthiness of the name, a string held as a sequence of characters.
TruthyName(name) == Len(name) > 0

----------------------------------------------------------------------------
(* Continue Button, lines 71-79 *)

\* The names the block binds when the button has fired, none otherwise.
ContinueBlock(fired, clinician, level, name) ==
    IF fired
    THEN [bound |-> TRUE, name |-> name, clinician |-> clinician,
          experience_level |-> IF clinician = "Yes" THEN level ELSE None]
    ELSE [bound |-> FALSE, name |-> << >>, clinician |-> None,
          experience_level |-> None]

----------------------------------------------------------------------------
(* Session State Initialization, lines 98-103 *)

Put(m, k, v) == [x \in DOMAIN m \cup {k} |-> IF x = k THEN v ELSE m[x]]

EmptySession == [k \in {} |-> None]

SessionInitReset(ss) ==
    Put(Put(ss, "question_index", 0), "responses", [i \in Slots |-> None])

SessionInit(ss) ==
    LET s1 == IF "question_index" \notin DOMAIN ss
              THEN Put(ss, "question_index", 0) ELSE ss
    IN  IF "responses" \notin DOMAIN s1
        THEN Put(s1, "responses", [i \in Slots |-> None]) ELSE s1

----------------------------------------------------------------------------
(* The response radio and its store, lines 118-137 *)

\* options.index(existing_response), 0-based as in Python
OptionIndex(v) == CHOOSE i \in 0 .. Len(options) - 1 : options[i + 1] = v

default_index(existing_response) ==
    IF existing_response \in Valid THEN OptionIndex(existing_response) ELSE 0

RadioForgets(trigger, picked, index) ==
    IF trigger = "radio" THEN picked ELSE options[1]

\* The value st.radio returns, lines 126-131: the option just picked when
\* the radio is the widget that fired, the option at index otherwise.
Radio(trigger, picked, index) ==
    IF trigger = "radio" THEN picked ELSE options[index + 1]

\* A Python list index: a negative one counts from the end.
PyIndex(i) == IF i < 0 THEN i + N ELSE i

\* video_paths[i] and responses[i] raise IndexError outside -N .. N-1.
IndexError(i) == PyIndex(i) \notin Slots

StoreResponseWipe(ss, response) ==
    Put(ss, "responses",
        [j \in Slots |->
            IF j = PyIndex(ss["question_index"]) /\ response \in Valid
            THEN response ELSE None])

\* lines 134-137
StoreResponse(ss, response) ==
    Put(ss, "responses",
        [ss["responses"] EXCEPT ![PyIndex(ss["question_index"])] =
            IF response \in Valid THEN response ELSE None])

----------------------------------------------------------------------------
(* Buttons, lines 141, 146, 151 *)

\* st.button returns True in the execution its click started.
Button(trigger, label) == trigger = label

NextDisabledNever(ss, question_index) == FALSE

\* disabled= of the Next button, line 146
NextDisabled(ss, question_index) ==
    ss["responses"][PyIndex(question_index)] = None

\* disabled= of the Submit Answers button, line 151
SubmitDisabled(ss, question_index) ==
    ss["responses"][PyIndex(question_index)] = None

----------------------------------------------------------------------------
(* Sanitize name for filename, line 158 *)

Letters ==
    { "a", "b", "c", "d", "e", "f", "g", "h", "i", "j", "k", "l", "m",
      "n", "o", "p", "q", "r", "s", "t", "u", "v", "w", "x", "y", "z",
      "A", "B", "C", "D", "E", "F", "G", "H", "I", "J", "K", "L", "M",
      "N", "O", "P", "Q", "R", "S", "T", "U", "V", "W", "X", "Y", "Z" }

Digits == { "0", "1", "2", "3", "4", "5", "6", "7", "8", "9" }

\* \w of a Python 3 str pattern
IsWord(c) == c \in Letters \cup Digits \cup { "_" }

\* the complement of the class [^\w\-_. ]
Kept(c) == IsWord(c) \/ c \in { "-", "_", ".", " " }

Whitespace == { " ", "\t", "\n", "\r" }

ReSubDelete(name) == SelectSeq(name, Kept)

\* re.sub(r'[^\w\-_. ]', '_', name)
ReSub(name) ==
    [i \in 1 .. Len(name) |-> IF Kept(name[i]) THEN name[i] ELSE "_"]

\* str.strip(): what lies between the first and the last character that is
\* not whitespace
Strip(s) ==
    LET solid == { i \in 1 .. Len(s) : s[i] \notin Whitespace }
    IN  IF solid = {} THEN << >>
        ELSE SubSeq(s, CHOOSE i \in solid : \A j \in solid : i <= j,
                       CHOOSE i \in solid : \A j \in solid : i >= j)

safe_name(name) == Strip(ReSub(name))

----------------------------------------------------------------------------
(* Submission Block, lines 152-205 *)

\* Clock ticks per second: datetime.now() is finer than the "%S" it is
\* formatted with.
TicksPerSecond == 2

\* datetime.datetime.now().strftime("%Y%m%d_%H%M%S"): the whole second
timestamp(now) == ToString(now \div TicksPerSecond)

\* f"{safe_name}_{timestamp}.json", line 160
file_name(name, now) == safe_name(name) \o << "_", timestamp(now), ".json" >>

\* os.path.join(responses_folder, file_name), line 161
file_path(name, now) == << responses_folder, "/" >> \o file_name(name, now)

\* f"Question {i+1}"
QuestionKey(i) == "Question " \o ToString(i + 1)

AnswerOrNone(responses, i) == responses[i]

\* responses[i] if responses[i] else "No Response", lines 170 and 197
AnswerOrNoResponse(responses, i) ==
    IF Truthy(responses[i]) THEN responses[i] ELSE "No Response"

\* new_data, lines 164-170
new_data(prof, responses) ==
    [k \in { "Name", "Clinician", "Experience Level" }
            \cup { QuestionKey(i) : i \in Slots } |->
        CASE k = "Name" -> prof.name
          [] k = "Clinician" -> prof.clinician
          [] k = "Experience Level" ->
                IF prof.clinician = "Yes" THEN prof.experience_level ELSE None
          [] OTHER ->
                AnswerOrNoResponse(responses,
                    CHOOSE i \in Slots : QuestionKey(i) = k)]

row_dataNull(prof, responses) ==
    << prof.name, prof.clinician,
       IF prof.clinician = "Yes" THEN prof.experience_level ELSE None >>
    \o [j \in 1 .. N |-> AnswerOrNoResponse(responses, j - 1)]

\* row_data, lines 192-197
row_data(prof, responses) ==
    << prof.name, prof.clinician,
       IF prof.clinician = "Yes" THEN prof.experience_level ELSE "" >>
    \o [j \in 1 .. N |-> AnswerOrNoResponse(responses, j - 1)]

\* The calls of the Google Sheets block that can raise, lines 185-200
RemoteCalls ==
    { "st.secrets", "from_service_account_info", "authorize", "client.open",
      "append_row" }

\* What an execution leaves for the properties to read: the calls it made
\* and the messages it showed, in order; the record it wrote; the row it
\* appended; and what the environment answered it, the option picked in the
\* radio included ("" when the radio did not start the execution).
NoEffects ==
    [events |-> << >>, written |-> << >>, row |-> << >>,
     io |-> [video |-> "ok", now |-> 0, makedirs |-> "ok", write |-> "ok",
             remote |-> "ok", picked |-> ""]]

\* Lines 172-177, after the folder exists: open(file_path, "w") and json.dump
\* in one try.  io.write is what the storage answers.
WriteJson(path, data, io, fs, made) ==
    CASE io.write = "ok" ->
            [events |-> made \o << "open", "json.dump" >>,
             files |-> [folder |-> TRUE,
                        content |-> Put(fs.content, path, << data >>)],
             written |-> << [path |-> path, data |-> data] >>,
             raised |-> FALSE]
      [] io.write = "open fails" ->
            [events |-> made \o << "open", "st.error json" >>,
             files |-> [folder |-> TRUE, content |-> fs.content],
             written |-> << >>, raised |-> FALSE]
      [] OTHER ->   \* the file is opened for writing, then the dump fails
            [events |-> made \o << "open", "json.dump", "st.error json" >>,
             files |-> [folder |-> TRUE,
                        content |-> Put(fs.content, path, << >>)],
             written |-> << >>, raised |-> FALSE]

\* Lines 153-155: os.makedirs is called outside any try, so its failure
\* ends the execution.
MakedirsRaises(io, fs) == ~fs.folder /\ io.makedirs = "fails"

\* Lines 152-177
LocalSink(prof, responses, io, fs) ==
    IF MakedirsRaises(io, fs)
    THEN [events |-> << "makedirs", "exception" >>, files |-> fs,
          written |-> << >>, raised |-> TRUE]
    ELSE WriteJson(file_path(prof.name, io.now), new_data(prof, responses),
                   io, fs, IF fs.folder THEN << >> ELSE << "makedirs" >>)

\* Lines 180-202: the calls are made up to the one that raises, then st.error
AppendRow(row, io, sh) ==
    CASE io.remote = "ok" ->
            [events |-> << "append_row" >>, sheet |-> Append(sh, row),
             row |-> << row >>]
      [] io.remote = "append_row" ->
            [events |-> << "append_row", "st.error sheets" >>, sheet |-> sh,
             row |-> << >>]
      [] OTHER ->
            [events |-> << "st.error sheets" >>, sheet |-> sh, row |-> << >>]

RemoteSinkStale(prof, responses, io, sh) ==
    AppendRow(row_data(prof, [responses EXCEPT ![N - 1] = None]), io, sh)

RemoteSink(prof, responses, io, sh) ==
    AppendRow(row_data(prof, responses), io, sh)

BothSinksAbort(a, b, sh) ==
    IF a.raised \/ "st.error sheets" \in { b.events[i] : i \in DOMAIN b.events }
    THEN [events |-> a.events \o b.events, files |-> a.files,
          sheet |-> b.sheet, written |-> a.written, row |-> b.row]
    ELSE [events |-> a.events \o b.events \o << "st.success", "st.stop" >>,
          files |-> a.files, sheet |-> b.sheet,
          written |-> a.written, row |-> b.row]

\* Lines 152-205 in order: the local sink a, the remote sink b, then
\* st.success and st.stop; an exception of the local sink ends the execution.
BothSinks(a, b, sh) ==
    IF a.raised
    THEN [events |-> a.events, files |-> a.files, sheet |-> sh,
          written |-> << >>, row |-> << >>]
    ELSE [events |-> a.events \o b.events \o << "st.success", "st.stop" >>,
          files |-> a.files, sheet |-> b.sheet,
          written |-> a.written, row |-> b.row]

\* The body of the final if, lines 152-205
SubmissionBlock(prof, responses, io, fs, sh) ==
    BothSinks(LocalSink(prof, responses, io, fs),
              RemoteSink(prof, responses, io, sh), sh)

----------------------------------------------------------------------------
(* One execution of the script, lines 98-205 *)

NoWidgets == [shown |-> {}, disabled |-> {}]

AtEveryQuestion(question_index) == TRUE

\* question_index == len(video_paths) - 1, the left operand of line 151's
\* and: the Submit Answers button exists only where it holds.
AtLastIndex(question_index) == question_index = N - 1

\* What lines 126-151 put on the page at question_index
Page(ss, question_index) ==
    [shown |-> { "radio", "Previous", "Next" }
               \cup (IF AtLastIndex(question_index)
                     THEN { "Submit Answers" } ELSE {}),
     disabled |-> (IF NextDisabled(ss, question_index)
                   THEN { "Next" } ELSE {})
                  \cup (IF AtLastIndex(question_index)
                           /\ SubmitDisabled(ss, question_index)
                        THEN { "Submit Answers" } ELSE {})]

VideoSilent(io) ==
    IF io.video = "ok" THEN << "components.html" >> ELSE << >>

\* get_video_html and its display, lines 18-25 and 112-116
Video(io) ==
    IF io.video = "ok" THEN << "components.html" >>
    ELSE << "st.error video" >>

PreviousFiresAlways(trigger, question_index) == Button(trigger, "Previous")

PreviousFiresFromSecond(trigger, question_index) ==
    Button(trigger, "Previous") /\ question_index > 1

\* line 141
PreviousFires(trigger, question_index) ==
    Button(trigger, "Previous") /\ question_index > 0

\* line 146
NextFires(trigger, question_index) ==
    Button(trigger, "Next") /\ question_index < N - 1

\* line 151
SubmitFires(trigger, question_index) ==
    AtLastIndex(question_index) /\ Button(trigger, "Submit Answers")

\* The result of an execution that leaves the stores alone
Plain(ss, w, events, fs, sh, again) ==
    [ss |-> ss, widgets |-> w, events |-> events, written |-> << >>,
     row |-> << >>, files |-> fs, sheet |-> sh, rerun |-> again,
     submitted |-> FALSE]

Submitted(ss, page, events, b) ==
    [ss |-> ss, widgets |-> page, events |-> events \o b.events,
     written |-> b.written, row |-> b.row, files |-> b.files,
     sheet |-> b.sheet, rerun |-> FALSE, submitted |-> TRUE]

\* Lines 139-205, with the response stored in ss
Buttons(ss, question_index, trigger, prof, io, fs, sh) ==
    IF PreviousFires(trigger, question_index)
    THEN Plain(Put(ss, "question_index", ss["question_index"] - 1),
               Page(ss, question_index), Video(io), fs, sh, TRUE)
    ELSE IF NextFires(trigger, question_index)
    THEN Plain(Put(ss, "question_index", ss["question_index"] + 1),
               Page(ss, question_index), Video(io), fs, sh, TRUE)
    ELSE IF SubmitFires(trigger, question_index)
    THEN Submitted(ss, Page(ss, question_index), Video(io),
                   SubmissionBlock(prof, ss["responses"], io, fs, sh))
    ELSE Plain(ss, Page(ss, question_index), Video(io), fs, sh, FALSE)

\* Lines 105-205, ss being the session state after its initialization
Questionnaire(ss, trigger, picked, prof, io, fs, sh) ==
    IF ~prof.bound                  \* "if name:" raises NameError, line 106
    THEN Plain(ss, NoWidgets, << "exception" >>, fs, sh, FALSE)
    ELSE IF ~TruthyName(prof.name)
    THEN Plain(ss, NoWidgets, << >>, fs, sh, FALSE)
    ELSE IF IndexError(ss["question_index"])   \* video_paths[question_index]
    THEN Plain(ss, NoWidgets, << "exception" >>, fs, sh, FALSE)
    ELSE Buttons(StoreResponse(ss,
                     Radio(trigger, picked,
                           default_index(
                               ss["responses"][PyIndex(ss["question_index"])]))),
                 ss["question_index"], trigger, prof, io, fs, sh)

\* One execution of the script, lines 98-205
Script(ss0, trigger, picked, prof, io, fs, sh) ==
    Questionnaire(SessionInit(ss0), trigger, picked, prof, io, fs, sh)

\* st.rerun(), lines 143 and 148: the script starts again with no widget fired.
Again(first, prof, io, fs, sh) ==
    IF first.rerun THEN Script(first.ss, "", "", prof, io, fs, sh) ELSE first

Execution(ss0, trigger, picked, prof, io, fs, sh) ==
    Again(Script(ss0, trigger, picked, prof, io, fs, sh), prof, io, fs, sh)

----------------------------------------------------------------------------
(* Bounds and the inputs the environment supplies *)

\* Executions explored after the first submission of a session
MaxAfter == 1

\* Executions explored from a session that starts at the last question
MaxRuns == 2

\* Clock ticks a session that starts at the last question can see
MaxTick == 3

\* Longest name sanitized in isolation
MaxNameLen == 3

Unlimited == 0 - 1

Ann == << "A", "n", "n" >>

\* two names that differ only in a character the pattern replaces
Slash == << "a", "/" >>
Under == << "a", "_" >>

OBrien ==
    << "O", "'", "B", "r", "i", "e", "n", "/", "S", "m", "i", "t", "h",
       " ", "3" >>

\* What the two radios of the Continue block can return
ProfileChoices ==
    { << "Yes", "Resident" >>, << "Yes", "Esperto" >>, << "No", None >> }

Profiles(continues, names, choices) ==
    { ContinueBlock(f, c[1], c[2], n) :
        f \in continues, n \in names, c \in choices }

\* What the environment may answer to an execution
AllOptions == { options[i] : i \in 1 .. Len(options) }

\* A whole session, from the first page load, with storage and spreadsheet
\* in working order
NavEnv ==
    [continues |-> { TRUE },
     names |-> { Ann }, choices |-> { << "No", None >> },
     picks |-> AllOptions,
     videos |-> { "ok" }, ticks |-> { 1 },
     makedirs |-> { "ok" }, writes |-> { "ok" }, remotes |-> { "ok" }]

\* A session followed from the last question, with every answer of the
\* storage and of the spreadsheet.
SinkEnv ==
    [continues |-> { TRUE },
     names |-> { Slash, Under }, choices |-> { << "Yes", "Esperto" >> },
     picks |-> AllOptions,
     videos |-> { "ok" }, ticks |-> 1 .. MaxTick,
     makedirs |-> { "ok", "fails" },
     writes |-> { "ok", "open fails", "dump fails" },
     remotes |-> { "ok" } \cup RemoteCalls]

\* An execution that never reaches the Submission Block reads only the video
Quiet(video) ==
    [video |-> video, now |-> clock, makedirs |-> "ok", write |-> "ok",
     remote |-> "ok", picked |-> ""]

----------------------------------------------------------------------------
(* Gestures: each starts one execution of the script *)

Trigger(gesture) == IF gesture \in { "load", "page" } THEN "" ELSE gesture

\* The state after an execution with result r
Shown(gesture, r, io) ==
    /\ session_state' = r.ss
    /\ clicked' = gesture
    /\ ran' = TRUE
    /\ widgets' = r.widgets
    /\ out' = [events |-> r.events, written |-> r.written, row |-> r.row,
               io |-> io]
    /\ files' = r.files
    /\ sheet' = r.sheet
    /\ clock' = IF r.submitted THEN io.now ELSE clock
    /\ runsLeft' = IF runsLeft # Unlimited THEN runsLeft - 1
                   ELSE IF r.submitted THEN MaxAfter ELSE Unlimited
    /\ UNCHANGED call

Run(gesture, picked, prof, io) ==
    /\ runsLeft # 0
    /\ UNCHANGED widget_values
    /\ Shown(gesture,
             Execution(session_state, Trigger(gesture), picked, prof, io,
                       files, sheet),
             io)

\* A click on a disabled button: the browser sends nothing, nothing runs.
Ignored(gesture) ==
    /\ clicked' = gesture
    /\ ran' = FALSE
    /\ UNCHANGED << session_state, widgets, out, files, sheet, clock,
                    runsLeft, call, widget_values >>

Click(gesture, prof, io) ==
    /\ gesture \in widgets.shown
    /\ IF gesture \in widgets.disabled
       THEN Ignored(gesture)
       ELSE Run(gesture, "", prof, io)

\* The first execution of a browser session: no button has fired.
Load ==
    /\ session_state = EmptySession
    /\ Run("load", "", ContinueBlock(FALSE, None, None, << >>), Quiet("ok"))

\* An execution no questionnaire widget started: Continue, or a widget of
\* its block.
Rerun(E) ==
    /\ session_state # EmptySession
    /\ \E prof \in Profiles(E.continues, E.names \cup { << >> }, E.choices),
          v \in E.videos :
          Run("page", "", prof, Quiet(v))

\* The respondent picks an option of the radio.
SelectOption(E) ==
    /\ "radio" \in widgets.shown
    /\ \E picked \in E.picks, prof \in Profiles(E.continues, E.names, E.choices),
          v \in E.videos :
          Run("radio", picked, prof, [Quiet(v) EXCEPT !.picked = picked])

ClickPrevious(E) ==
    \E prof \in Profiles(E.continues, E.names, E.choices), v \in E.videos :
        Click("Previous", prof, Quiet(v))

ClickNext(E) ==
    \E prof \in Profiles(E.continues, E.names, E.choices), v \in E.videos :
        Click("Next", prof, Quiet(v))

ClickSubmit(E) ==
    \E prof \in Profiles(E.continues, E.names, E.choices), v \in E.videos,
       now \in { t \in E.ticks : t >= clock },
       m \in E.makedirs, w \in E.writes, g \in E.remotes :
        Click("Submit Answers", prof,
              [video |-> v, now |-> now, makedirs |-> m, write |-> w,
               remote |-> g, picked |-> ""])

----------------------------------------------------------------------------
(* Specifications *)

Idle == [op |-> "none", arg |-> << >>, res |-> << >>, done |-> FALSE]

\* The widgets before the respondent touches them: st.radio returns its
\* first option, st.text_input the empty string, lines 73-79; the radio of
\* the questionnaire has no value of its own.
Defaults ==
    [name |-> << >>, clinician |-> "Yes", level |-> "Resident", radio |-> ""]

NoFiles == [p \in {} |-> << >>]

\* A new browser session on a fresh deployment
Init ==
    /\ session_state = EmptySession
    /\ clicked = ""
    /\ ran = FALSE
    /\ widgets = NoWidgets
    /\ out = NoEffects
    /\ files = [folder |-> FALSE, content |-> NoFiles]
    /\ sheet = << >>
    /\ clock = 0
    /\ runsLeft = Unlimited
    /\ call = Idle
    /\ widget_values = Defaults

Next ==
    \/ Load
    \/ Rerun(NavEnv)
    \/ SelectOption(NavEnv)
    \/ ClickPrevious(NavEnv)
    \/ ClickNext(NavEnv)
    \/ ClickSubmit(NavEnv)

Spec == Init /\ [][Next]_vars

\* The answers of a respondent who alternates, as in the scenario of the
\* specification
Alternating == [i \in Slots |-> IF i % 2 = 0 THEN "Left" ELSE "Right"]

AtLastQuestion ==
    [k \in { "question_index", "responses" } |->
        IF k = "question_index" THEN N - 1 ELSE Alternating]

\* The session after the respondent has answered the last question
InitSink ==
    /\ session_state = AtLastQuestion
    /\ clicked = "radio"
    /\ ran = TRUE
    /\ widgets = Page(AtLastQuestion, N - 1)
    /\ out = [NoEffects EXCEPT !.events = << "components.html" >>]
    /\ files = [folder |-> FALSE, content |-> NoFiles]
    /\ sheet = << >>
    /\ clock = 0
    /\ runsLeft = MaxRuns
    /\ call = Idle
    /\ widget_values = Defaults

NextSink ==
    \/ Rerun(SinkEnv)
    \/ SelectOption(SinkEnv)
    \/ ClickPrevious(SinkEnv)
    \/ ClickNext(SinkEnv)
    \/ ClickSubmit(SinkEnv)

SpecSink == InitSink /\ [][NextSink]_vars

\* InitSink is a state of Spec but for the executions left to explore.
SinkStartReached ==
    /\ session_state = AtLastQuestion
    /\ clicked = "radio"
    /\ ran = TRUE
    /\ widgets = Page(AtLastQuestion, N - 1)
    /\ out = [NoEffects EXCEPT !.events = << "components.html" >>]
    /\ files = [folder |-> FALSE, content |-> NoFiles]
    /\ sheet = << >>
    /\ clock = 0

\* A session in which reading a video file may fail
VideoEnv ==
    [NavEnv EXCEPT !.videos = { "ok", "fails" },
                   !.picks = { options[1], "Left" }]

NextVideo ==
    \/ Load
    \/ Rerun(VideoEnv)
    \/ SelectOption(VideoEnv)
    \/ ClickPrevious(VideoEnv)
    \/ ClickNext(VideoEnv)
    \/ ClickSubmit(VideoEnv)

SpecVideo == Init /\ [][NextVideo]_vars

----------------------------------------------------------------------------
(* The script as Streamlit runs it: st.button("Continue") returns True only *)
(* in the execution its own click started, so the Continue block runs in   *)
(* that execution and in no other.                                         *)

\* What the environment may answer in such a session
AppEnv ==
    [continues |-> { FALSE },
     names |-> { Ann }, choices |-> ProfileChoices,
     picks |-> AllOptions,
     videos |-> { "ok", "fails" }, ticks |-> { 1 },
     makedirs |-> { "ok" }, writes |-> { "ok" }, remotes |-> { "ok" }]

\* The page shows the widgets of the Continue block: the last execution ran
\* the block.
ProfileShown ==
    /\ session_state # EmptySession
    /\ "exception" \notin { out.events[i] : i \in DOMAIN out.events }

\* After an execution that did not render a widget, Streamlit holds its value
\* or has dropped it: which one is not the script's to decide.
KeptOrDropped(values) == { values, Defaults }

\* The respondent clicks Continue: the block reads its widgets, and the radio
\* of the questionnaire returns the option held for it, if one is.
ClickContinue(E) ==
    /\ session_state # EmptySession
    /\ runsLeft # 0
    /\ UNCHANGED widget_values
    /\ \E v \in E.videos :
          Shown("Continue",
                Execution(session_state,
                          IF widget_values.radio = "" THEN "" ELSE "radio",
                          widget_values.radio,
                          ContinueBlock(TRUE, widget_values.clinician,
                                        widget_values.level,
                                        widget_values.name),
                          Quiet(v), files, sheet),
                Quiet(v))

\* An execution started by a widget other than Continue, which leaves the new
\* values with Streamlit
Unfired(gesture, values, E) ==
    /\ runsLeft # 0
    /\ widget_values' \in KeptOrDropped(values)
    /\ \E prof \in Profiles(E.continues, E.names, E.choices), v \in E.videos :
          Shown(gesture,
                Execution(session_state, Trigger(gesture), values.radio, prof,
                          Quiet(v), files, sheet),
                Quiet(v))

\* The respondent edits a widget of the Continue block.
EditProfile(E) ==
    /\ ProfileShown
    /\ \/ \E n \in E.names \cup { << >> } :
             Unfired("page", [widget_values EXCEPT !.name = n], E)
       \/ \E c \in E.choices :
             Unfired("page", [widget_values EXCEPT !.clinician = c[1]], E)
       \/ /\ widget_values.clinician = "Yes"
          /\ \E c \in { d \in E.choices : d[1] = "Yes" } :
                Unfired("page", [widget_values EXCEPT !.level = c[2]], E)

\* The respondent picks an option of the radio of the questionnaire.
PickOption(E) ==
    /\ "radio" \in widgets.shown
    /\ \E picked \in E.picks :
          Unfired("radio", [widget_values EXCEPT !.radio = picked], E)

\* A click on one of the three buttons of the questionnaire
PressButton(E) ==
    \E b \in { "Previous", "Next", "Submit Answers" },
       prof \in Profiles(E.continues, E.names, E.choices), v \in E.videos,
       now \in { t \in E.ticks : t >= clock },
       m \in E.makedirs, w \in E.writes, g \in E.remotes :
        Click(b, prof,
              [video |-> v, now |-> now, makedirs |-> m, write |-> w,
               remote |-> g, picked |-> ""])

NextApp ==
    \/ Load
    \/ ClickContinue(AppEnv)
    \/ EditProfile(AppEnv)
    \/ PickOption(AppEnv)
    \/ PressButton(AppEnv)

SpecApp == Init /\ [][NextApp]_vars

----------------------------------------------------------------------------
(* The helpers of the Submission Block applied in isolation *)

NameAlphabet == { "a", "3", "'", "/", " ", "\t", "-", "_", "." }

NamesUpTo(n) == UNION { [1 .. k -> NameAlphabet] : k \in 0 .. n }

Unset(call_op, arg) ==
    [op |-> call_op, arg |-> arg, res |-> << >>, done |-> FALSE]

Quiescent ==
    /\ session_state = EmptySession
    /\ clicked = ""
    /\ ran = FALSE
    /\ widgets = NoWidgets
    /\ out = NoEffects
    /\ files = [folder |-> FALSE, content |-> NoFiles]
    /\ sheet = << >>
    /\ clock = 0
    /\ runsLeft = Unlimited
    /\ widget_values = Defaults

InitName ==
    /\ Quiescent
    /\ call \in { Unset("safe_name", n) : n \in NamesUpTo(MaxNameLen) \cup { OBrien } }

CallSafeName ==
    /\ call.op = "safe_name"
    /\ ~call.done
    /\ call' = [call EXCEPT !.done = TRUE, !.res = safe_name(call.arg)]
    /\ UNCHANGED << session_state, clicked, ran, widgets, out, files, sheet,
                    clock, runsLeft, widget_values >>

NextName == CallSafeName

SpecName == InitName /\ [][NextName]_vars

\* Every answers vector, the unset slots included
AnyResponses == [Slots -> { None, "Left", "Right" }]

InitRecords ==
    /\ Quiescent
    /\ call \in { Unset("records", [prof |-> p, responses |-> r]) :
                    p \in Profiles({ TRUE }, { Ann }, ProfileChoices),
                    r \in AnyResponses }

CallRecords ==
    /\ call.op = "records"
    /\ ~call.done
    /\ call' = [call EXCEPT
                   !.done = TRUE,
                   !.res = [new_data |-> new_data(call.arg.prof,
                                                  call.arg.responses),
                            row_data |-> row_data(call.arg.prof,
                                                  call.arg.responses)]]
    /\ UNCHANGED << session_state, clicked, ran, widgets, out, files, sheet,
                    clock, runsLeft, widget_values >>

NextRecords == CallRecords

SpecRecords == InitRecords /\ [][NextRecords]_vars

----------------------------------------------------------------------------
(* Properties *)

Initialized == DOMAIN session_state = { "question_index", "responses" }

current_index == session_state["question_index"]

answers == session_state["responses"]

Events(o) == { o.events[i] : i \in DOMAIN o.events }

Enabled(label) == label \in widgets.shown \ widgets.disabled

C2_PriorSlotsSet ==
    Initialized =>
        /\ \A j \in Slots : j < current_index => answers[j] \in Valid
        /\ (current_index = N - 1 /\ answers[N - 1] # None) =>
                \A j \in Slots : answers[j] # None
        /\ Enabled("Submit Answers") => \A j \in Slots : answers[j] # None

\* Next has been clicked with the last slot set: Submit Answers is enabled.
C2_Witness ==
    /\ Initialized /\ current_index = N - 1
    /\ Enabled("Submit Answers")
    /\ clicked = "Next" /\ ran

Attempted(o) ==
    Events(o) \cap { "makedirs", "open", "json.dump", "append_row",
                     "st.error json", "st.error sheets", "st.success" } # {}

\* C3: the Submission Block runs, and the stores change, only in a step
\* taken at index N-1 with the last slot set.
C3_SubmitOnlyAtAnsweredEnd ==
    [][((ran' /\ Attempted(out')) \/ files' # files \/ sheet' # sheet) =>
          /\ Initialized
          /\ current_index = N - 1
          /\ answers[N - 1] \in Valid
          /\ clicked' = "Submit Answers"]_vars

\* A submission has written the record and appended the row.
C3_Witness ==
    /\ clicked = "Submit Answers" /\ ran
    /\ out.written # << >> /\ out.row # << >>
    /\ Len(sheet) = 1
    /\ current_index = N - 1

\* C4: a Previous gesture at index i > 0 yields i-1 whether or not
\* answers[i] is set, and at index 0 leaves the index at 0.
C4_PreviousAlwaysRetreats ==
    [][clicked' = "Previous" =>
          /\ Initialized
          /\ ran'
          /\ session_state'["question_index"] =
                 IF current_index > 0 THEN current_index - 1 ELSE 0]_vars

\* Previous has left index 3, whose slot is unset, for index 2.
C4_Witness ==
    /\ clicked = "Previous" /\ ran
    /\ Initialized /\ current_index = 2 /\ answers[3] = None

\* C5: the index stays within 0..N-1, N = 10, and answers has exactly N
\* slots, each unset, "Left" or "Right".
C5_IndexAndSlotsInRange ==
    /\ N = 10
    /\ Initialized =>
          /\ current_index \in 0 .. N - 1
          /\ DOMAIN answers = 0 .. N - 1
          /\ Cardinality(DOMAIN answers) = N
          /\ \A i \in DOMAIN answers : answers[i] \in { None, "Left", "Right" }

\* Previous was clicked at index 0, or at index 1, and the index is 0.
C5_Witness ==
    /\ clicked = "Previous" /\ ran
    /\ Initialized /\ current_index = 0 /\ answers[0] = "Left"
    /\ answers[1] = None

Fresh ==
    [k \in { "question_index", "responses" } |->
        IF k = "question_index" THEN 0 ELSE [i \in Slots |-> None]]

\* C6: the initialization gives index 0 and N unset answers to a session
\* without state, and changes nothing of a session that has state: an
\* execution no questionnaire widget started leaves session_state as it was.
C6_InitializationIdempotent ==
    [][/\ ~Initialized => (session_state = EmptySession /\ session_state' = Fresh)
       /\ Initialized =>
             /\ SessionInit(session_state) = session_state
             /\ Initialized'
             /\ clicked' = "page" => session_state' = session_state]_vars

\* The page was run again with two answers given and the index at 2.
C6_Witness ==
    /\ clicked = "page" /\ ran
    /\ Initialized /\ current_index = 2
    /\ answers[0] = "Left" /\ answers[1] = "Right"

\* C7: in the local record and in the remote row, the entry of a stimulus is
\* the recorded value when its slot is set and "No Response" when it is
\* unset, never null and never the empty string.
C7_UnsetIsNoResponse ==
    (call.op = "records" /\ call.done) =>
        \A i \in Slots :
            LET a == call.arg.responses[i]
                entry == call.res.new_data["Question " \o ToString(i + 1)]
                cell == call.res.row_data[3 + i + 1]
            IN  /\ a \in Valid => (entry = a /\ cell = a)
                /\ a = None => (entry = "No Response" /\ cell = "No Response")
                /\ entry \notin { None, "" }
                /\ cell \notin { None, "" }

\* The records of the slots Left, Right, unset, Left, ... have been built.
C7_Witness ==
    /\ call.op = "records" /\ call.done
    /\ call.arg.responses[0] = "Left" /\ call.arg.responses[1] = "Right"
    /\ call.arg.responses[2] = None /\ call.arg.responses[3] = "Left"
    /\ call.res.new_data["Question 3"] = "No Response"
    /\ call.res.row_data[6] = "No Response"

\* C8 as stated: the record name is the name with every character outside
\* the kept set deleted.
C8_StrippedByDeletion ==
    (call.op = "safe_name" /\ call.done) =>
        call.res = SelectSeq(call.arg, Kept)

O_Brien_Smith ==
    << "O", "_", "B", "r", "i", "e", "n", "_", "S", "m", "i", "t", "h",
       " ", "3" >>

\* C8 amended: every character outside the kept set is replaced by an
\* underscore, none is deleted, and then the spaces at both ends are
\* removed; "O'Brien/Smith 3" yields "O_Brien_Smith 3".
C8_ReplacedByUnderscore ==
    (call.op = "safe_name" /\ call.done) =>
        LET name == call.arg
            res == call.res
            Sub(c) == IF Kept(c) THEN c ELSE "_"
        IN  /\ \E k \in 0 .. Len(name) :
                  /\ k + Len(res) <= Len(name)
                  /\ \A i \in 1 .. Len(res) : res[i] = Sub(name[k + i])
                  /\ \A i \in 1 .. Len(name) :
                        (i <= k \/ i > k + Len(res)) => name[i] = " "
            /\ Len(res) > 0 => (res[1] # " " /\ res[Len(res)] # " ")
            /\ name = OBrien => res = O_Brien_Smith

\* "O'Brien/Smith 3" has been sanitized.
C8_Witness ==
    /\ call.op = "safe_name" /\ call.done
    /\ call.arg = OBrien
    /\ call.res = O_Brien_Smith

Submitting == clicked' = "Submit Answers" /\ ran'

\* The local sink fails: the folder cannot be created, or the file cannot
\* be opened or written.
LocalSinkFails ==
    \/ ~files.folder /\ out'.io.makedirs = "fails"
    \/ out'.io.write # "ok"

WriteFailureDoesNotAbort ==
    [][(Submitting /\ out'.io.write # "ok"
          /\ (files.folder \/ out'.io.makedirs = "ok")) =>
          /\ "st.error json" \in Events(out')
          /\ Events(out') \cap { "append_row", "st.error sheets" } # {}
          /\ "st.success" \in Events(out')]_vars

\* C10: when the remote sink fails during a submit, the error is reported,
\* no row is appended, the local record written in the same submit stays in
\* place, and the success is shown before the execution stops.
C10_RemoteFailureKeepsLocal ==
    [][(Submitting /\ out'.io.remote # "ok"
          /\ "exception" \notin Events(out')) =>
          /\ "st.error sheets" \in Events(out')
          /\ sheet' = sheet /\ out'.row = << >>
          /\ out'.io.write = "ok" =>
                /\ out'.written # << >>
                /\ out'.written[1].path \in DOMAIN files'.content
                /\ files'.content[out'.written[1].path]
                      = << out'.written[1].data >>
          /\ Len(out'.events) >= 2
          /\ SubSeq(out'.events, Len(out'.events) - 1, Len(out'.events))
                = << "st.success", "st.stop" >>]_vars

\* The spreadsheet refused the row and the record of that submit is on disk.
C10_Witness ==
    /\ clicked = "Submit Answers" /\ ran
    /\ out.io.remote = "client.open"
    /\ "st.error sheets" \in Events(out)
    /\ out.written # << >>
    /\ files.content[out.written[1].path] = << out.written[1].data >>
    /\ sheet = << >>

\* A submit has completed in this session exactly when the responses folder
\* exists: makedirs is the only call of the block that can end it early.
SubmitCompleted == files.folder

C13_NoUncaughtError == "exception" \notin Events(out)

\* What holds of the code: with Continue fired only by its own click, the
\* Submission Block is never entered and the index never leaves 0.
NeverPastFirstQuestion ==
    /\ ~Attempted(out)
    /\ files.content = NoFiles /\ sheet = << >>
    /\ Initialized => current_index = 0

\* C14: each gesture of the sequence Continue, name, answer, Next, ...,
\* Submit made on the shown questionnaire leads to the next page of the
\* sequence: answering leaves the questionnaire shown, Next on an answered
\* stimulus shows the following one, Submit Answers enters the Submission
\* Block.
C14_SequenceProceeds ==
    [][ran' =>
          /\ clicked' = "radio" => "radio" \in widgets'.shown
          /\ (clicked' = "Next" /\ current_index < N - 1) =>
                /\ session_state'["question_index"] = current_index + 1
                /\ "radio" \in widgets'.shown
          /\ clicked' = "Submit Answers" => Attempted(out')]_vars

\* C15: for a respondent who is not a clinician the local record has
\* Experience Level null and the remote row has the empty string, not null,
\* in its third cell; for a clinician both carry the selected level.
C15_ExperienceLevelBySink ==
    (call.op = "records" /\ call.done) =>
        LET prof == call.arg.prof
            level == call.res.new_data["Experience Level"]
            cell == call.res.row_data[3]
        IN  /\ prof.clinician # "Yes" =>
                  (level = None /\ cell = "" /\ cell # None)
            /\ prof.clinician = "Yes" =>
                  /\ level = prof.experience_level
                  /\ cell = prof.experience_level
                  /\ level \in { "Resident", "Esperto" }

\* The records of Ann, not a clinician, with alternating answers are built.
C15_Witness ==
    /\ call.op = "records" /\ call.done
    /\ call.arg.prof.name = Ann /\ call.arg.prof.clinician = "No"
    /\ call.arg.responses = Alternating
    /\ call.res.new_data["Clinician"] = "No"
    /\ call.res.new_data["Experience Level"] = None
    /\ call.res.row_data[3] = ""

\* C16: when the video of the current stimulus cannot be loaded, the error
\* is reported, nothing is displayed for it, and the execution does to the
\* index and the answers what it does when the load succeeds: a plain
\* execution changes nothing, the radio writes the current slot only, Next
\* and Previous move the index by their rules, and the questionnaire stays
\* on the page.
C16_VideoFailureKeepsSession ==
    [][(ran' /\ out'.io.video = "fails" /\ widgets'.shown # {}) =>
          LET i == current_index
              index == session_state'["question_index"]
              slots == session_state'["responses"]
          IN  /\ "st.error video" \in Events(out')
              /\ "components.html" \notin Events(out')
              /\ "exception" \notin Events(out')
              /\ Initialized /\ Initialized'
              /\ clicked' = "page" => session_state' = session_state
              /\ clicked' = "radio" =>
                    /\ index = i
                    /\ slots[i] \in Valid \cup { None }
                    /\ \A j \in Slots \ { i } : slots[j] = answers[j]
              /\ clicked' = "Next" =>
                    /\ slots = answers
                    /\ index = IF answers[i] # None /\ i < N - 1
                               THEN i + 1 ELSE i
              /\ clicked' = "Previous" =>
                    /\ slots = answers
                    /\ index = IF i > 0 THEN i - 1 ELSE i
              /\ widgets' = Page(session_state', index)]_vars

\* Next has moved to index 1 in an execution whose video could not be read.
C16_Witness ==
    /\ clicked = "Next" /\ ran
    /\ out.io.video = "fails"
    /\ "st.error video" \in Events(out)
    /\ Initialized /\ current_index = 1 /\ answers[0] = "Left"

Count(seq, e) == Cardinality({ i \in DOMAIN seq : seq[i] = e })

First(seq, e) == CHOOSE i \in DOMAIN seq : seq[i] = e /\ \A j \in 1 .. i - 1 : seq[j] # e

RemoteEvents == { "append_row", "st.error sheets" }

NoRetryInOrder ==
    [][Submitting =>
          LET ev == out'.events
              remote == { i \in DOMAIN ev : ev[i] \in RemoteEvents }
          IN  /\ \A e \in { "makedirs", "open", "json.dump", "st.error json",
                            "append_row", "st.error sheets", "st.success" } :
                    Count(ev, e) <= 1
              /\ "exception" \notin Events(out') =>
                    /\ Count(ev, "open") = 1 /\ remote # {}
                    /\ Count(ev, "st.success") = 1
                    /\ \A i \in remote :
                          First(ev, "open") < i /\ i < First(ev, "st.success")]_vars

C19_SinksCarrySameData ==
    [][(Submitting /\ out'.written # << >> /\ out'.row # << >>) =>
          LET data == out'.written[1].data
              row == out'.row[1]
          IN  /\ Len(row) = N + 3
              /\ \A i \in Slots :
                    /\ data["Question " \o ToString(i + 1)] = row[3 + i + 1]
                    /\ data["Question " \o ToString(i + 1)] =
                          IF answers[i] = None THEN "No Response"
                          ELSE answers[i]
              /\ data["Name"] = row[1]
              /\ data["Clinician"] = row[2]
              /\ session_state' = session_state
              /\ sheet' = Append(sheet, row)]_vars

\* A submit has written the record and appended the row of the same answers.
C19_Witness ==
    /\ clicked = "Submit Answers" /\ ran
    /\ out.written # << >> /\ out.row # << >>
    /\ out.written[1].data["Question 10"] = "Right"
    /\ out.row[1][N + 3] = "Right"
    /\ out.row[1][1] = out.written[1].data["Name"]
    /\ sheet # << >> /\ sheet[Len(sheet)] = out.row[1]

====
